---- MODULE Spec2Model ----
(***************************************************************************)
(* State-machine model of the news de-duplication pipeline:                *)
(*   NewsProcessor (feed items -> stored articles),                        *)
(*   DeduplicationEngine (queue worker, candidate scoring, election),      *)
(*   AlertManager (admission gate, 5 s dispatcher, API status writes).     *)
(* Times are in minutes.  Scores are in thousandths (1.0 = 1000), signal   *)
(* values in hundredths (1.0 = 100).                                       *)
(***************************************************************************)
EXTENDS Integers, Sequences, FiniteSets, TLC

VARIABLES
    now,                \* wall clock (minutes)
    articles,           \* store collection 'articles', in insertion order; _id = index
    duplicates,         \* store collection 'duplicates' (set of DuplicateLink records)
    feedTask,           \* per feed: the processArticle call in flight
    delivered,          \* number of feed items handed to processArticle so far
    articleProcessed,   \* history: article ids emitted as 'articleProcessed'
    processingQueue,    \* DeduplicationEngine.processingQueue
    dedupIsProcessing,  \* DeduplicationEngine.isProcessing
    batch,              \* the part of the current batch not yet handled by processQueue
    uniqueEvents,       \* history: article ids emitted as 'uniqueArticleDetected'
    clusters,           \* ClusteringEngine.clusters, in insertion order of the Map
    nextClusterId,      \* generateClusterId: a fresh id per call
    alertQueue,         \* AlertManager.alertQueue
    alertIsProcessing,  \* AlertManager.isProcessing
    sending,            \* the alert sendAlert is delivering for the dispatcher, or NoAlert
    alertHistory,       \* AlertManager.alertHistory: set of [key, time], one per key;
                        \* a key is `${alert.id}_${articleKey}`
    alerts,             \* store collection 'alerts', in insertion order; _id = index
    stats,              \* AlertManager.stats
    nextAlertId,        \* generateAlertId: a fresh id per call
    admissions,         \* history: [time, articleKey] of each alert processAlert queued
    apiCalls,           \* number of calls of the alerts API so far
    overlap,            \* the batch of a processQueue started while another one runs
    newsIsProcessing,   \* NewsProcessor.isProcessing
    cronJob,            \* NewsProcessor.cronJob is scheduled
    cycles,             \* number of processAllFeeds calls in progress
    phase,              \* "running", "stopping" (services stopped, store open), "exited"
    restarted,          \* the process has been terminated and started again
    lifecycleOps,       \* number of stop, start, shutdown and restart operations so far
    feedState,          \* per feed: where its processFeed call of the cycle stands
    fetchAttempts,      \* per feed: rssParser.parseURL calls made in the cycle
    fetchFailure,       \* per feed: the error parseURL rejected with, or "none"
    errorCount,         \* per feed: errorCount of its document in collection 'feeds'
    cursor,             \* per feed: items of feedData.items handed to processArticle
    probe,              \* the last value computed by a scoring or alert-building call
    db                  \* DatabaseManager: connection flags, retry counter, the connect() call under way

pipelineVars == <<articles, duplicates, feedTask, delivered, articleProcessed,
                  processingQueue, dedupIsProcessing, batch, uniqueEvents,
                  clusters, nextClusterId, overlap>>
alertVars == <<alertQueue, alertIsProcessing, sending, alertHistory, alerts, stats,
               nextAlertId, admissions, apiCalls>>
lifecycleVars == <<newsIsProcessing, cronJob, cycles, phase, restarted, lifecycleOps>>
feedVars == <<feedState, fetchAttempts, fetchFailure, errorCount, cursor>>
vars == <<now, pipelineVars, alertVars, lifecycleVars, feedVars, probe, db>>

-----------------------------------------------------------------------------
(* Bounds of the model *)
MaxItems == 3          \* feed items handed to processArticle in one behaviour
MaxDays == 1           \* how many times a day may pass on the clock
BatchSize == 2         \* config.performance.batchSize used by the model
MaxAlertArticles == 2  \* 'uniqueArticleDetected' events handed to processAlert
MaxApiCalls == 1       \* calls of the alerts API (status update, resend)
MaxClusters == 3       \* clusters created in one behaviour of the clustering engine
MaxLifecycleOps == 2   \* stop, start, shutdown and restart operations
MaxCycles == 2         \* feed-processing cycles followed at the same time
MaxLifecycleItems == 2 \* feed items presented in a behaviour with life-cycle operations
maxAlertsPerHour == 1  \* config.alerts.maxAlertsPerHour used by the model

(* Program constants *)
TimeWindowHours == 24
CandidateLimit == 50
MaxRetries == 3
MinPromisingScore == 300
ThresholdContentHash == 1000
ThresholdTitleSimilarity == 900
SimilarityThreshold == 850
ThresholdEntitySimilarity == 800
ThresholdLlmValidation == 850
connectionMaxRetries == 5
TitleWeight == 4
ContentWeight == 4
EntityWeight == 2
cooldownMinutes == 5
QualityThreshold == 3
ClusterMaxAgeDays == 7
FetchRetryAttempts == 3        \* config.feeds.retryAttempts

Day == 24 * 60
StartTime == 2 * Day
timeWindow == TimeWindowHours * 60

-----------------------------------------------------------------------------
(* Feeds configuration: two enabled feeds of different source and category *)
(* that share one tag.                                                     *)
Feeds == {1, 2}
FeedName == <<"Reuters", "TechCrunch">>
FeedCategory == <<"business", "technology">>
FeedTags == << {"markets"}, {"markets", "startups"} >>

(* Feed items.  A text stands for one title+content; texts 1 and 5 differ  *)
(* only in case and punctuation; texts 1, 2, 3 report the same story in    *)
(* different words; text 4 is a follow-up of that story.                   *)
(* Both feeds carry the syndicated item u1; u2 and u3 are seen with either *)
(* publication time.                                                       *)
FeedItems ==
    << { [url |-> "u1", text |-> 1, publishedAt |-> StartTime],
         [url |-> "u2", text |-> 2, publishedAt |-> StartTime - 60],
         [url |-> "u2", text |-> 2, publishedAt |-> StartTime],
         [url |-> "u4", text |-> 4, publishedAt |-> StartTime] },
       { [url |-> "u1", text |-> 1, publishedAt |-> StartTime],
         [url |-> "u3", text |-> 3, publishedAt |-> StartTime - 60],
         [url |-> "u3", text |-> 3, publishedAt |-> StartTime],
         [url |-> "u5", text |-> 5, publishedAt |-> StartTime] } >>

NormalForm == <<1, 2, 3, 4, 1>>

(* feedData.items of each feed in the cycle the feed-cycle specification    *)
(* follows: both feeds carry u1, each then an older report of the story    *)
FeedList ==
    << << [url |-> "u1", text |-> 1, publishedAt |-> StartTime],
          [url |-> "u2", text |-> 2, publishedAt |-> StartTime - 60] >>,
       << [url |-> "u1", text |-> 1, publishedAt |-> StartTime],
          [url |-> "u3", text |-> 3, publishedAt |-> StartTime - 60] >> >>

(* what rssParser.parseURL resolves or rejects with *)
FetchOutcomes == {"ok", "transport", "http5xx", "http4xx"}

generateContentHash(text) == NormalForm[text]

Min(a, b) == IF a < b THEN a ELSE b
Max(a, b) == IF a > b THEN a ELSE b
Abs(x) == IF x < 0 THEN -x ELSE x

(* Text-derived signals of a pair of texts with different hashes           *)
(* (title, TF-IDF content, entity Jaccard, embedding cosine), in 1/100.    *)
TextSignals(t1, t2) ==
    LET lo == Min(NormalForm[t1], NormalForm[t2])
        hi == Max(NormalForm[t1], NormalForm[t2])
    IN  CASE lo = 1 /\ hi = 2 ->
               [title |-> 95, content |-> 80, entity |-> 100, semantic |-> 90]
          [] lo \in {1, 2} /\ hi = 3 ->
               [title |-> 60, content |-> 70, entity |-> 100, semantic |-> 90]
          [] lo \in {1, 2} /\ hi = 4 ->
               [title |-> 30, content |-> 20, entity |-> 40, semantic |-> 50]
          [] OTHER ->
               [title |-> 5, content |-> 0, entity |-> 0, semantic |-> 20]

calculateTemporalProximity(d1, d2) ==
    Max(0, 100 - (Abs(d1 - d2) * 100) \div Day)

calculateSourceAlignment(a1, a2) ==
    LET tags1 == FeedTags[a1.source]
        tags2 == FeedTags[a2.source]
        maxTags == Max(Cardinality(tags1), Cardinality(tags2))
        s1 == IF a1.source = a2.source THEN 40 ELSE 0
        s2 == IF FeedCategory[a1.source] = FeedCategory[a2.source] THEN 30 ELSE 0
        s3 == IF maxTags > 0
              THEN (Cardinality(tags1 \cap tags2) * 30) \div maxTags ELSE 0
    IN  Min(s1 + s2 + s3, 100)

(* a selection whose boundary values select the method *)
determinePrimaryMethodInclusive(scores) ==
    IF scores.contentHash = 100 THEN "content_hash"
    ELSE IF scores.titleSimilarity >= 90 THEN "title_similarity"
    ELSE IF scores.semanticSimilarity >= 85 THEN "semantic_similarity"
    ELSE IF scores.entitySimilarity >= 80 THEN "entity_similarity"
    ELSE "content_similarity"

determinePrimaryMethod(scores) ==
    IF scores.contentHash = 100 THEN "content_hash"
    ELSE IF scores.titleSimilarity > 90 THEN "title_similarity"
    ELSE IF scores.semanticSimilarity > 85 THEN "semantic_similarity"
    ELSE IF scores.entitySimilarity > 80 THEN "entity_similarity"
    ELSE "content_similarity"

(* the weighted overall score and the primary method of a pair whose       *)
(* content hashes differ                                                   *)
combineScores(scores) ==
    [contentHash |-> 0,
     overallScore |-> scores.titleSimilarity * TitleWeight
                    + scores.contentSimilarity * ContentWeight
                    + scores.entitySimilarity * EntityWeight
                    + scores.semanticSimilarity * 3
                    + scores.temporalProximity * 1
                    + scores.sourceAlignment * 1,
     method |-> determinePrimaryMethod(scores)]

calculateSimilarityScore(a1, a2) ==
    IF a1.contentHash = a2.contentHash
    THEN [contentHash |-> 100, overallScore |-> 1000, method |-> "content_hash"]
    ELSE LET sig == TextSignals(a1.text, a2.text)
             scores == [contentHash |-> 0,
                        titleSimilarity |-> sig.title,
                        contentSimilarity |-> sig.content,
                        entitySimilarity |-> sig.entity,
                        semanticSimilarity |-> sig.semantic,
                        temporalProximity |->
                            calculateTemporalProximity(a1.publishedAt, a2.publishedAt),
                        sourceAlignment |-> calculateSourceAlignment(a1, a2)]
         IN  combineScores(scores)


-----------------------------------------------------------------------------
(* Store helpers *)
ArticleIds == 1..Len(articles)

findArticleByUrl(url) == {i \in ArticleIds : articles[i].url = url}
findArticleByHash(hash) == {i \in ArticleIds : articles[i].contentHash = hash}

(* findOne returns the first match in natural (insertion) order *)
FirstOf(ids) == CHOOSE i \in ids : \A j \in ids : i <= j

(* unique index on (originalArticleId, duplicateArticleId) *)
DuplicateKeyExists(links, orig, dup) ==
    \E l \in links : l.originalArticleId = orig /\ l.duplicateArticleId = dup

(* stable sort of records by their key, descending (Array.prototype.sort   *)
(* with (a, b) => b.key - a.key, and the store's sort {publishedAt: -1})   *)
RECURSIVE InsertDesc(_, _)
InsertDesc(x, s) ==
    IF s = <<>> THEN <<x>>
    ELSE IF Head(s).key <= x.key THEN <<x>> \o s
    ELSE <<Head(s)>> \o InsertDesc(x, Tail(s))

RECURSIVE SortDesc(_)
SortDesc(s) == IF s = <<>> THEN <<>> ELSE InsertDesc(Head(s), SortDesc(Tail(s)))

RECURSIVE SeqOfSet(_)
SeqOfSet(S) ==
    IF S = {} THEN <<>>
    ELSE LET m == CHOOSE i \in S : \A j \in S : i <= j
         IN  <<m>> \o SeqOfSet(S \ {m})

-----------------------------------------------------------------------------
(* ClusteringEngine *)

createNewCluster(cl, a) ==
    [clusters |-> Append(cl.clusters,
                         [id |-> cl.nextId, articles |-> <<a>>,
                          created |-> now, updated |-> now]),
     nextId |-> cl.nextId + 1]

SeqIncludes(seq, x) == \E k \in 1..Len(seq) : seq[k] = x

(* index of the first cluster listing the article, 0 when there is none *)
findClusterByArticle(cls, a) ==
    LET hits == {k \in 1..Len(cls) : SeqIncludes(cls[k].articles, a)}
    IN  IF hits = {} THEN 0 ELSE CHOOSE k \in hits : \A j \in hits : k <= j

addToCluster(cl, a, dups) ==
    LET k == findClusterByArticle(cl.clusters, dups[1].candidate)
    IN  IF k = 0 THEN createNewCluster(cl, a)
        ELSE IF SeqIncludes(cl.clusters[k].articles, a) THEN cl
        ELSE [cl EXCEPT !.clusters[k].articles = Append(@, a),
                        !.clusters[k].updated = now]

updateClusters(cl, a, dups) ==
    IF dups = <<>> THEN createNewCluster(cl, a) ELSE addToCluster(cl, a, dups)

RemoveAt(seq, k) ==
    [j \in 1..(Len(seq) - 1) |-> IF j < k THEN seq[j] ELSE seq[j + 1]]

(* mergeClusters(clusterId1, clusterId2): cluster2's articles are pushed    *)
(* onto cluster1 and cluster2 is deleted                                    *)
mergeClusters(cls, id1, id2) ==
    LET k1s == {k \in 1..Len(cls) : cls[k].id = id1}
        k2s == {k \in 1..Len(cls) : cls[k].id = id2}
    IN  IF k1s = {} \/ k2s = {} THEN cls
        ELSE LET k1 == CHOOSE k \in k1s : TRUE
                 k2 == CHOOSE k \in k2s : TRUE
                 merged == [cls EXCEPT ![k1].articles = @ \o cls[k2].articles,
                                       ![k1].updated = now]
             IN  RemoveAt(merged, k2)

cleanupOldClusters(cls) ==
    SelectSeq(cls, LAMBDA c : ~(now - c.created > ClusterMaxAgeDays * Day))

-----------------------------------------------------------------------------
(* DeduplicationEngine *)

getCandidateArticles(a) ==
    LET timeThreshold == now - timeWindow
        hits == {i \in ArticleIds :
                    /\ i # a
                    /\ articles[i].publishedAt >= timeThreshold
                    /\ \/ articles[i].source = articles[a].source
                       \/ FeedCategory[articles[i].source] = FeedCategory[articles[a].source]
                       \/ FeedTags[articles[i].source] \cap FeedTags[articles[a].source] # {}}
        natural == SeqOfSet(hits)
        keyed == [k \in 1..Len(natural) |->
                    [id |-> natural[k], key |-> articles[natural[k]].publishedAt]]
        sorted == SortDesc(keyed)
    IN  [k \in 1..Min(Len(sorted), CandidateLimit) |-> sorted[k].id]

analyzeSimilarities(a, candidates) ==
    LET scored == [k \in 1..Len(candidates) |->
                     LET sim == calculateSimilarityScore(articles[a], articles[candidates[k]])
                     IN  [candidate |-> candidates[k], overallScore |-> sim.overallScore,
                          method |-> sim.method, key |-> sim.overallScore]]
        promising == SelectSeq(scored, LAMBDA s : s.overallScore > MinPromisingScore)
    IN  SortDesc(promising)

MethodThreshold(method) ==
    CASE method = "content_hash" -> ThresholdContentHash
      [] method = "title_similarity" -> ThresholdTitleSimilarity
      [] method = "semantic_similarity" -> SimilarityThreshold
      [] OTHER -> SimilarityThreshold

identifyDuplicates(similarities) ==
    SelectSeq(similarities, LAMBDA s : s.overallScore >= MethodThreshold(s.method))

(* allArticles.reduce((earliest, current) =>                               *)
(*    current.publishedAt < earliest.publishedAt ? current : earliest)     *)
RECURSIVE reduceEarliest(_, _)
reduceEarliest(earliest, rest) ==
    IF rest = <<>> THEN earliest
    ELSE reduceEarliest(
            IF articles[Head(rest)].publishedAt < articles[earliest].publishedAt
            THEN Head(rest) ELSE earliest,
            Tail(rest))

electOriginal(a, dups) ==
    reduceEarliest(a, [k \in 1..Len(dups) |-> dups[k].candidate])

(* the loop of insertDuplicate calls; the first duplicate-key error ends it *)
RECURSIVE recordDuplicates(_, _, _)
recordDuplicates(orig, dups, links) ==
    IF dups = <<>> THEN [links |-> links, ok |-> TRUE]
    ELSE IF DuplicateKeyExists(links, orig, Head(dups).candidate)
    THEN [links |-> links, ok |-> FALSE]
    ELSE recordDuplicates(orig, Tail(dups),
            links \cup {[originalArticleId |-> orig,
                         duplicateArticleId |-> Head(dups).candidate,
                         duplicateUrl |-> "",
                         similarityScore |-> Head(dups).overallScore,
                         detectionMethod |-> Head(dups).method]})

markAsUnique(arts, a) ==
    [arts EXCEPT ![a].duplicateChecked = TRUE, ![a].isDuplicate = FALSE]

markAsDuplicate(arts, a, orig) ==
    [arts EXCEPT ![a].duplicateChecked = TRUE, ![a].isDuplicate = TRUE,
                 ![a].originalArticleId = orig]

MatchedOf(a) == identifyDuplicates(analyzeSimilarities(a, getCandidateArticles(a)))

(* a processDuplicates that, when the current article is the elected       *)
(* original, also marks every matched article as its duplicate             *)
RECURSIVE markMatched(_, _, _)
markMatched(arts, orig, dups) ==
    IF dups = <<>> THEN arts
    ELSE markMatched(markAsDuplicate(arts, Head(dups).candidate, orig), orig, Tail(dups))

processDuplicatesMarksMatched(a, dups) ==
    LET orig == electOriginal(a, dups)
        rec == recordDuplicates(orig, dups, duplicates)
    IN  IF ~rec.ok
        THEN [articles |-> articles, duplicates |-> rec.links,
              emitted |-> FALSE, threw |-> TRUE, clustered |-> FALSE]
        ELSE IF a = orig
        THEN [articles |-> markAsUnique(markMatched(articles, a, dups), a),
              duplicates |-> rec.links,
              emitted |-> TRUE, threw |-> FALSE, clustered |-> TRUE]
        ELSE [articles |-> markAsDuplicate(articles, a, orig), duplicates |-> rec.links,
              emitted |-> FALSE, threw |-> FALSE, clustered |-> TRUE]

(* processDuplicates(article, duplicates): what it leaves behind *)
processDuplicates(a, dups) ==
    LET orig == electOriginal(a, dups)
        rec == recordDuplicates(orig, dups, duplicates)
    IN  IF ~rec.ok
        THEN [articles |-> articles, duplicates |-> rec.links,
              emitted |-> FALSE, threw |-> TRUE, clustered |-> FALSE]
        ELSE IF a = orig
        THEN [articles |-> markAsUnique(articles, a), duplicates |-> rec.links,
              emitted |-> TRUE, threw |-> FALSE, clustered |-> TRUE]
        ELSE [articles |-> markAsDuplicate(articles, a, orig), duplicates |-> rec.links,
              emitted |-> FALSE, threw |-> FALSE, clustered |-> TRUE]

(* performDeduplication(article): what it leaves behind *)
performDeduplication(a) ==
    LET dups == MatchedOf(a)
    IN  IF dups = <<>>
        THEN [articles |-> markAsUnique(articles, a), duplicates |-> duplicates,
              emitted |-> FALSE, threw |-> FALSE,
              clustered |-> getCandidateArticles(a) # <<>>]
        ELSE processDuplicates(a, dups)

(* a catch block that gives up at the first failure *)
ShouldRetryNever(item) == item.retryCount < 0

(* the retry test in the catch block of processQueue *)
ShouldRetryOnceMore(item) == item.retryCount <= MaxRetries

ShouldRetry(item) == item.retryCount < MaxRetries

(* setInterval worker of startProcessing, and the head of processQueue.    *)
(* The spliced batch is a local of that processQueue call; a call made     *)
(* while another one still runs (isProcessing was reset by stop()) is      *)
(* followed in overlap.  Two calls are followed at a time.                 *)
DedupTick ==
    /\ ~dedupIsProcessing
    /\ Len(processingQueue) > 0
    /\ batch = <<>> \/ overlap = <<>>
    /\ dedupIsProcessing' = TRUE
    /\ LET batchSize == Min(BatchSize, Len(processingQueue))
           spliced == SubSeq(processingQueue, 1, batchSize)
       IN  /\ IF batch = <<>>
              THEN batch' = spliced /\ overlap' = overlap
              ELSE overlap' = spliced /\ batch' = batch
           /\ processingQueue' = SubSeq(processingQueue, batchSize + 1, Len(processingQueue))
    /\ UNCHANGED <<now, probe, db, feedVars, articles, duplicates, feedTask, delivered, articleProcessed,
                   uniqueEvents, clusters, nextClusterId, alertVars, lifecycleVars>>

(* the body of the for-loop of processQueue for one item *)
HandleItem(item) ==
    LET res == performDeduplication(item.article)
    IN  /\ articles' = res.articles
        /\ duplicates' = res.duplicates
        /\ uniqueEvents' = IF res.emitted THEN Append(uniqueEvents, item.article)
                           ELSE uniqueEvents
        /\ LET cl == IF res.clustered
                     THEN updateClusters([clusters |-> clusters, nextId |-> nextClusterId],
                                         item.article, MatchedOf(item.article))
                     ELSE [clusters |-> clusters, nextId |-> nextClusterId]
           IN  /\ clusters' = cl.clusters
               /\ nextClusterId' = cl.nextId
        /\ processingQueue' =
              IF res.threw /\ ShouldRetry(item)
              THEN Append(processingQueue,
                          [article |-> item.article, retryCount |-> item.retryCount + 1])
              ELSE processingQueue

(* one iteration of the for-loop of a running processQueue call, the one   *)
(* that holds batch or the one that holds overlap; its last iteration      *)
(* resets isProcessing                                                     *)
ProcessQueueItem ==
    \E call \in {1, 2} :
        LET mine == IF call = 1 THEN batch ELSE overlap
        IN  /\ mine # <<>>
            /\ HandleItem(Head(mine))
            /\ batch' = IF call = 1 THEN Tail(batch) ELSE batch
            /\ overlap' = IF call = 2 THEN Tail(overlap) ELSE overlap
            /\ dedupIsProcessing' = IF Tail(mine) = <<>> THEN FALSE ELSE dedupIsProcessing
            /\ UNCHANGED <<now, probe, db, feedVars, feedTask, delivered, articleProcessed, alertVars,
                           lifecycleVars>>

-----------------------------------------------------------------------------
(* NewsProcessor.processArticle, one step per store round trip *)
NoItem == [url |-> "", text |-> 0, publishedAt |-> 0]
Idle == [pc |-> "idle", item |-> NoItem]

(* processArticle is called for an item; lookup by url *)
StartArticle(f, item) ==
    /\ cycles > 0
    /\ feedTask[f].pc = "idle"
    /\ delivered' = delivered + 1
    /\ feedTask' = IF findArticleByUrl(item.url) # {}
                   THEN feedTask
                   ELSE [feedTask EXCEPT ![f] = [pc |-> "urlChecked", item |-> item]]
    /\ UNCHANGED <<now, probe, db, articles, duplicates, articleProcessed, processingQueue,
                   dedupIsProcessing, batch, uniqueEvents, clusters, nextClusterId,
                   alertVars, lifecycleVars, overlap>>

(* processFeed hands some item of the feed to processArticle *)
ProcessArticleStart(f, item) ==
    /\ delivered < MaxItems
    /\ StartArticle(f, item)
    /\ UNCHANGED feedVars

(* lookup by contentHash; a hit records a link with a null duplicate id *)
ProcessArticleHashCheck(f) ==
    /\ feedTask[f].pc = "urlChecked"
    /\ LET item == feedTask[f].item
           found == findArticleByHash(generateContentHash(item.text))
       IN  IF found # {}
           THEN /\ duplicates' =
                     IF DuplicateKeyExists(duplicates, FirstOf(found), 0)
                     THEN duplicates
                     ELSE duplicates \cup {[originalArticleId |-> FirstOf(found),
                                            duplicateArticleId |-> 0,
                                            duplicateUrl |-> item.url,
                                            similarityScore |-> 1000,
                                            detectionMethod |-> "content_hash"]}
                /\ feedTask' = [feedTask EXCEPT ![f] = Idle]
           ELSE /\ duplicates' = duplicates
                /\ feedTask' = [feedTask EXCEPT ![f].pc = "hashChecked"]
    /\ UNCHANGED <<now, probe, db, feedVars, articles, delivered, articleProcessed, processingQueue,
                   dedupIsProcessing, batch, uniqueEvents, clusters, nextClusterId,
                   alertVars, lifecycleVars, overlap>>

(* a processArticle that hands the article on whether or not the insert    *)
(* went through                                                            *)
ProcessArticleInsertEmitsAnyway(f) ==
    /\ feedTask[f].pc = "hashChecked"
    /\ LET item == feedTask[f].item
           id == Len(articles) + 1
       IN  /\ articles' =
                 IF findArticleByUrl(item.url) # {} THEN articles
                 ELSE Append(articles,
                        [url |-> item.url, text |-> item.text,
                         contentHash |-> generateContentHash(item.text),
                         source |-> f, publishedAt |-> item.publishedAt,
                         duplicateChecked |-> FALSE, isDuplicate |-> FALSE,
                         originalArticleId |-> 0])
           /\ articleProcessed' = Append(articleProcessed, id)
           /\ processingQueue' = Append(processingQueue,
                                        [article |-> id, retryCount |-> 0])
    /\ feedTask' = [feedTask EXCEPT ![f] = Idle]
    /\ UNCHANGED <<now, probe, db, feedVars, duplicates, delivered, dedupIsProcessing, batch, uniqueEvents,
                   clusters, nextClusterId, alertVars, lifecycleVars, overlap>>

(* a processFeed without the try/catch around processArticle: the error of *)
(* a refused insert ends the loop in the feed's catch block                *)
ProcessArticleInsertEndsFeed(f) ==
    /\ feedTask[f].pc = "hashChecked"
    /\ LET item == feedTask[f].item
           id == Len(articles) + 1
       IN  IF findArticleByUrl(item.url) # {}
           THEN /\ UNCHANGED <<articles, articleProcessed, processingQueue>>
                /\ feedState' = [feedState EXCEPT ![f] = "settled"]
                /\ errorCount' = [errorCount EXCEPT ![f] = @ + 1]
           ELSE /\ articles' = Append(articles,
                      [url |-> item.url, text |-> item.text,
                       contentHash |-> generateContentHash(item.text),
                       source |-> f, publishedAt |-> item.publishedAt,
                       duplicateChecked |-> FALSE, isDuplicate |-> FALSE,
                       originalArticleId |-> 0])
                /\ articleProcessed' = Append(articleProcessed, id)
                /\ processingQueue' = Append(processingQueue,
                                             [article |-> id, retryCount |-> 0])
                /\ UNCHANGED <<feedState, errorCount>>
    /\ feedTask' = [feedTask EXCEPT ![f] = Idle]
    /\ UNCHANGED <<now, probe, db, fetchAttempts, fetchFailure, cursor, duplicates, delivered,
                   dedupIsProcessing, batch, uniqueEvents, clusters, nextClusterId,
                   alertVars, lifecycleVars, overlap>>

(* insertArticle (unique index on url), then 'articleProcessed' is emitted *)
(* and its listener queues the article for deduplication                   *)
ProcessArticleInsert(f) ==
    /\ feedTask[f].pc = "hashChecked"
    /\ LET item == feedTask[f].item
           id == Len(articles) + 1
       IN  IF findArticleByUrl(item.url) # {}
           THEN UNCHANGED <<articles, articleProcessed, processingQueue>>
           ELSE /\ articles' = Append(articles,
                      [url |-> item.url, text |-> item.text,
                       contentHash |-> generateContentHash(item.text),
                       source |-> f, publishedAt |-> item.publishedAt,
                       duplicateChecked |-> FALSE, isDuplicate |-> FALSE,
                       originalArticleId |-> 0])
                /\ articleProcessed' = Append(articleProcessed, id)
                /\ processingQueue' = Append(processingQueue,
                                             [article |-> id, retryCount |-> 0])
    /\ feedTask' = [feedTask EXCEPT ![f] = Idle]
    /\ UNCHANGED <<now, probe, db, feedVars, duplicates, delivered, dedupIsProcessing, batch, uniqueEvents,
                   clusters, nextClusterId, alertVars, lifecycleVars, overlap>>

(* processFeed: rssParser.parseURL is called once; its rejection goes to   *)
(* the catch block, which increments errorCount                            *)
ParseURL(f, outcome) ==
    /\ cycles > 0
    /\ feedState[f] = "called"
    /\ fetchAttempts' = [fetchAttempts EXCEPT ![f] = @ + 1]
    /\ IF outcome = "ok"
       THEN /\ feedState' = [feedState EXCEPT ![f] = "items"]
            /\ UNCHANGED <<fetchFailure, errorCount>>
       ELSE /\ feedState' = [feedState EXCEPT ![f] = "settled"]
            /\ fetchFailure' = [fetchFailure EXCEPT ![f] = outcome]
            /\ errorCount' = [errorCount EXCEPT ![f] = @ + 1]
    /\ UNCHANGED <<now, probe, db, pipelineVars, alertVars, lifecycleVars, cursor>>

(* processFeed: the for-loop over feedData.items calls processArticle for  *)
(* the next item once the previous call has returned or thrown             *)
ProcessFeedItem(f) ==
    /\ feedState[f] = "items"
    /\ cursor[f] < Len(FeedList[f])
    /\ StartArticle(f, FeedList[f][cursor[f] + 1])
    /\ cursor' = [cursor EXCEPT ![f] = @ + 1]
    /\ UNCHANGED <<feedState, fetchAttempts, fetchFailure, errorCount>>

(* processFeed: the loop has ended, the feed statistics are written *)
ProcessFeedDone(f) ==
    /\ feedState[f] = "items"
    /\ cursor[f] = Len(FeedList[f])
    /\ feedTask[f].pc = "idle"
    /\ feedState' = [feedState EXCEPT ![f] = "settled"]
    /\ UNCHANGED <<now, probe, db, pipelineVars, alertVars, lifecycleVars, fetchAttempts,
                   fetchFailure, errorCount, cursor>>

(* a day passes *)
DayPasses ==
    /\ now < StartTime + MaxDays * Day
    /\ now' = now + Day
    /\ UNCHANGED <<pipelineVars, alertVars, lifecycleVars, feedVars, probe, db>>


-----------------------------------------------------------------------------
(* AlertManager *)

(* config.alerts.channels.<c>.enabled *)
ChannelEnabled == [webhook |-> TRUE, email |-> TRUE, slack |-> TRUE]

(* Articles carried by 'uniqueArticleDetected'.  Titles are lower-cased    *)
(* word lists.                                                             *)
SampleArticles ==
    { [articleId |-> 1, title |-> <<"acme", "buys", "beta">>, source |-> "Reuters",
       category |-> "business", contentLength |-> 600, hasEntities |-> TRUE,
       publishedAt |-> StartTime, money |-> FALSE],
      [articleId |-> 2, title |-> <<"breaking", "gamma", "funding", "round">>,
       source |-> "TechCrunch", category |-> "technology", contentLength |-> 300,
       hasEntities |-> TRUE, publishedAt |-> StartTime, money |-> TRUE],
      [articleId |-> 3, title |-> <<"the", "cat", "show">>, source |-> "Blog",
       category |-> "entertainment", contentLength |-> 100, hasEntities |-> FALSE,
       publishedAt |-> StartTime - 600, money |-> FALSE] }

ShortWords == {"the", "cat", "ipo", "ceo"}          \* words of at most 3 characters
trustedSources == {"Reuters", "Bloomberg", "TechCrunch", "Wall Street Journal"}
breakingKeywords == {"breaking", "urgent", "alert", "developing"}
highImpactKeywords == {"merger", "acquisition", "ipo", "bankruptcy", "ceo", "funding"}
Statuses == {"pending", "sent", "failed", "cancelled"}

Range(seq) == {seq[k] : k \in 1..Len(seq)}

(* String.prototype.includes on '_'-joined keys: a contiguous run of parts *)
Includes(hay, needle) ==
    \E k \in 0..(Len(hay) - Len(needle)) :
        \A j \in 1..Len(needle) : hay[k + j] = needle[j]

generateArticleKey(title, source) ==
    LET long == SelectSeq(title, LAMBDA w : w \notin ShortWords)
    IN  <<source>> \o SubSeq(long, 1, Min(3, Len(long)))

checkRateLimit ==
    LET oneHourAgo == now - 60
        recentAlerts == Cardinality({h \in alertHistory : h.time > oneHourAgo})
    IN  recentAlerts < maxAlertsPerHour

isInCooldown(article) ==
    LET articleKey == generateArticleKey(article.title, article.source)
    IN  \E h \in alertHistory :
            /\ Includes(h.key.articleKey, articleKey)
            /\ now - h.time < cooldownMinutes

meetsQualityThreshold(article) ==
    LET s1 == IF article.contentLength > 500 THEN 2
              ELSE IF article.contentLength > 200 THEN 1 ELSE 0
        s2 == IF article.hasEntities THEN 1 ELSE 0
        s3 == IF article.category \in {"business", "technology", "breaking"} THEN 2 ELSE 0
        s4 == IF article.source \in trustedSources THEN 1 ELSE 0
        s5 == IF now - article.publishedAt < 120 THEN 1 ELSE 0
    IN  s1 + s2 + s3 + s4 + s5 >= QualityThreshold

shouldSendAlert(article) ==
    /\ checkRateLimit
    /\ ~isInCooldown(article)
    /\ meetsQualityThreshold(article)

calculatePriority(article) ==
    LET p1 == IF Range(article.title) \cap breakingKeywords # {} THEN "high" ELSE "medium"
        p2 == IF Range(article.title) \cap highImpactKeywords # {} THEN "high" ELSE p1
        p3 == IF article.money THEN "high" ELSE p2
    IN  IF article.category = "breaking" THEN "high"
        ELSE IF article.category = "business" THEN "medium"
        ELSE IF article.category = "entertainment" THEN "low"
        ELSE p3

(* a selection that sends email whatever the priority *)
determineChannelsAnyPriority(enabled, article) ==
    (IF enabled.webhook THEN <<"webhook">> ELSE <<>>)
    \o (IF enabled.email THEN <<"email">> ELSE <<>>)
    \o (IF enabled.slack /\ article.category \in {"business", "technology"}
        THEN <<"slack">> ELSE <<>>)

(* determineChannels under a given config.alerts.channels *)
determineChannelsWith(enabled, article) ==
    (IF enabled.webhook THEN <<"webhook">> ELSE <<>>)
    \o (IF enabled.email /\ calculatePriority(article) = "high"
        THEN <<"email">> ELSE <<>>)
    \o (IF enabled.slack /\ article.category \in {"business", "technology"}
        THEN <<"slack">> ELSE <<>>)

determineChannels(article) == determineChannelsWith(ChannelEnabled, article)

NoAlert == [id |-> 0]

(* a listener that counts a rejected article among the alerts too *)
processAlertCountsRejected(article) ==
    /\ stats.totalAlerts + stats.filteredAlerts < MaxAlertArticles
    /\ IF ~shouldSendAlert(article)
       THEN /\ stats' = [stats EXCEPT !.filteredAlerts = @ + 1, !.totalAlerts = @ + 1]
            /\ UNCHANGED <<alertQueue, nextAlertId, admissions>>
       ELSE /\ alertQueue' = Append(alertQueue,
                 [id |-> nextAlertId, storeId |-> 0, articleId |-> article.articleId,
                  title |-> article.title, source |-> article.source,
                  category |-> article.category,
                  priority |-> calculatePriority(article),
                  createdAt |-> now, channels |-> determineChannels(article),
                  status |-> "pending", results |-> <<>>, resendCount |-> 0])
            /\ nextAlertId' = nextAlertId + 1
            /\ stats' = [stats EXCEPT !.totalAlerts = @ + 1]
            /\ admissions' = Append(admissions,
                 [time |-> now,
                  articleKey |-> generateArticleKey(article.title, article.source)])
    /\ UNCHANGED <<now, probe, db, feedVars, pipelineVars, lifecycleVars, alertIsProcessing, sending, alertHistory, alerts,
                   apiCalls>>

(* listener of 'uniqueArticleDetected' *)
processAlert(article) ==
    /\ stats.totalAlerts + stats.filteredAlerts < MaxAlertArticles
    /\ IF ~shouldSendAlert(article)
       THEN /\ stats' = [stats EXCEPT !.filteredAlerts = @ + 1]
            /\ UNCHANGED <<alertQueue, nextAlertId, admissions>>
       ELSE /\ alertQueue' = Append(alertQueue,
                 [id |-> nextAlertId, storeId |-> 0, articleId |-> article.articleId,
                  title |-> article.title, source |-> article.source,
                  category |-> article.category,
                  priority |-> calculatePriority(article),
                  createdAt |-> now, channels |-> determineChannels(article),
                  status |-> "pending", results |-> <<>>, resendCount |-> 0])
            /\ nextAlertId' = nextAlertId + 1
            /\ stats' = [stats EXCEPT !.totalAlerts = @ + 1]
            /\ admissions' = Append(admissions,
                 [time |-> now,
                  articleKey |-> generateArticleKey(article.title, article.source)])
    /\ UNCHANGED <<now, probe, db, feedVars, pipelineVars, lifecycleVars, alertIsProcessing, sending, alertHistory, alerts,
                   apiCalls>>

(* a worker that takes the alert admitted last *)
AlertTickTakesLast ==
    /\ ~alertIsProcessing
    /\ Len(alertQueue) > 0
    /\ sending = NoAlert
    /\ alertIsProcessing' = TRUE
    /\ sending' = alertQueue[Len(alertQueue)]
    /\ alertQueue' = SubSeq(alertQueue, 1, Len(alertQueue) - 1)
    /\ UNCHANGED <<now, probe, db, feedVars, pipelineVars, lifecycleVars, alertHistory, alerts, stats, nextAlertId, admissions,
                   apiCalls>>

(* the 5 s worker of startAlertProcessor and the head of processAlertQueue *)
AlertTick ==
    /\ ~alertIsProcessing
    /\ Len(alertQueue) > 0
    /\ sending = NoAlert          \* one processAlertQueue call is followed at a time
    /\ alertIsProcessing' = TRUE
    /\ sending' = Head(alertQueue)
    /\ alertQueue' = Tail(alertQueue)
    /\ UNCHANGED <<now, probe, db, feedVars, pipelineVars, lifecycleVars, alertHistory, alerts, stats, nextAlertId, admissions,
                   apiCalls>>

(* per-channel results of sendAlert; the e-mail channel is a mock that     *)
(* always succeeds                                                         *)
channelResults(channels, outcome) ==
    [k \in 1..Len(channels) |->
        [channel |-> channels[k],
         success |-> IF channels[k] = "email" THEN TRUE ELSE outcome[channels[k]]]]

sentAlert(alert, outcome) ==
    LET results == channelResults(alert.channels, outcome)
        successCount == Cardinality({k \in 1..Len(results) : results[k].success})
    IN  [alert EXCEPT !.status = IF successCount > 0 THEN "sent" ELSE "failed",
                      !.results = results]

(* storeAlert: insertAlert, whose error (a document that already has an    *)
(* _id in the collection) is caught and logged                             *)
storeAlert(coll, alert) ==
    IF alert.storeId # 0 /\ alert.storeId \in 1..Len(coll)
    THEN coll
    ELSE Append(coll, [alert EXCEPT !.storeId = Len(coll) + 1, !.createdAt = now])

trackAlert(history, alert) ==
    LET key == [id |-> alert.id,
                articleKey |-> generateArticleKey(alert.title, alert.source)]
    IN  {h \in history : h.key # key} \cup {[key |-> key, time |-> now]}

statsAfterSend(st, alert) ==
    IF alert.status = "sent"
    THEN [st EXCEPT !.successfulAlerts = @ + 1]
    ELSE [st EXCEPT !.failedAlerts = @ + 1]

Outcomes == [{"webhook", "slack"} -> BOOLEAN]

(* the rest of processAlertQueue: sendAlert resolves *)
SendAlertFinish(outcome) ==
    /\ sending # NoAlert
    /\ LET alert == sentAlert(sending, outcome)
       IN  /\ alerts' = storeAlert(alerts, alert)
           /\ stats' = statsAfterSend(stats, alert)
           /\ alertHistory' = trackAlert(alertHistory, alert)
    /\ sending' = NoAlert
    /\ alertIsProcessing' = FALSE
    /\ UNCHANGED <<now, probe, db, feedVars, pipelineVars, lifecycleVars, alertQueue, nextAlertId, admissions, apiCalls>>

(* PATCH /api/alerts/:id/status *)
PatchStatus(i, status) ==
    /\ i \in 1..Len(alerts)
    /\ apiCalls < MaxApiCalls
    /\ apiCalls' = apiCalls + 1
    /\ alerts' = [alerts EXCEPT ![i].status = status]
    /\ UNCHANGED <<now, probe, db, feedVars, pipelineVars, lifecycleVars, alertQueue, alertIsProcessing, sending,
                   alertHistory, stats, nextAlertId, admissions>>

(* POST /api/alerts/:id/resend *)
Resend(i, outcome) ==
    /\ i \in 1..Len(alerts)
    /\ alerts[i].status # "sent"
    /\ apiCalls < MaxApiCalls
    /\ apiCalls' = apiCalls + 1
    /\ LET loaded == [alerts[i] EXCEPT !.status = "pending", !.resendCount = @ + 1]
           alert == sentAlert(loaded, outcome)
       IN  /\ alerts' = storeAlert(alerts, alert)
           /\ stats' = statsAfterSend(stats, alert)
           /\ alertHistory' = trackAlert(alertHistory, alert)
    /\ UNCHANGED <<now, probe, db, feedVars, pipelineVars, lifecycleVars, alertQueue, alertIsProcessing, sending,
                   nextAlertId, admissions>>

(* the alert clock moves on to a later instant of interest: the end of a   *)
(* cooldown, the end of a rate-limit hour                                  *)
AlertInstants == {StartTime + cooldownMinutes, StartTime + 60}

ClockAdvance(t) ==
    /\ t > now
    /\ now' = t
    /\ UNCHANGED <<pipelineVars, alertVars, lifecycleVars, feedVars, probe, db>>

-----------------------------------------------------------------------------
(* Calls of the clustering engine's methods *)
ClusterArticles == 1..3

DuplicatesArgs(a) ==
    {<<>>} \cup {<<[candidate |-> b]>> : b \in ClusterArticles \ {a}}

UpdateClustersCall(a, dups) ==
    /\ nextClusterId <= MaxClusters
    /\ LET cl == updateClusters([clusters |-> clusters, nextId |-> nextClusterId], a, dups)
       IN  /\ clusters' = cl.clusters
           /\ nextClusterId' = cl.nextId
    /\ UNCHANGED <<now, probe, db, feedVars, articles, duplicates, feedTask, delivered, articleProcessed,
                   processingQueue, dedupIsProcessing, batch, uniqueEvents, alertVars, lifecycleVars, overlap>>

MergeClustersCall(id1, id2) ==
    /\ clusters' = mergeClusters(clusters, id1, id2)
    /\ UNCHANGED <<now, probe, db, feedVars, articles, duplicates, feedTask, delivered, articleProcessed,
                   processingQueue, dedupIsProcessing, batch, uniqueEvents,
                   nextClusterId, alertVars, lifecycleVars, overlap>>

CleanupOldClustersCall ==
    /\ clusters' = cleanupOldClusters(clusters)
    /\ UNCHANGED <<now, probe, db, feedVars, articles, duplicates, feedTask, delivered, articleProcessed,
                   processingQueue, dedupIsProcessing, batch, uniqueEvents,
                   nextClusterId, alertVars, lifecycleVars, overlap>>

(* the clock moves past the maximum age of the clusters created so far *)
ClusterClock ==
    /\ now = StartTime
    /\ now' = now + (ClusterMaxAgeDays + 1) * Day
    /\ UNCHANGED <<pipelineVars, alertVars, lifecycleVars, feedVars, probe, db>>

-----------------------------------------------------------------------------
(* Calls of the scoring and alert-building functions on their own *)
NoProbe == [kind |-> "none"]

(* the similarity signals of a pair whose content hashes differ, in 1/100 *)
SignalVectors ==
    [contentHash : {0}, titleSimilarity : {50, 90, 95},
     contentSimilarity : {50, 80}, entitySimilarity : {40, 80, 90},
     semanticSimilarity : {50, 85, 90},
     temporalProximity : {0, 100}, sourceAlignment : {0, 100}]

(* the signals of a pair with equal content hashes: only the hash          *)
(* comparison is made                                                      *)
HashEqualVectors ==
    [contentHash : {100}, titleSimilarity : {0}, contentSimilarity : {0},
     entitySimilarity : {0}, semanticSimilarity : {0},
     temporalProximity : {0}, sourceAlignment : {0}]

(* calculateSimilarityScore from the signals of the pair *)
scoreSignals(scores) ==
    IF scores.contentHash = 100
    THEN [contentHash |-> 100, overallScore |-> 1000, method |-> "content_hash"]
    ELSE combineScores(scores)

(* what llmAnalyzer.validateDuplicate would answer for the pair: no         *)
(* provider, or isDuplicate and a confidence in 1/100                      *)
LlmAnswers ==
    {[available |-> FALSE, isDuplicate |-> FALSE, confidence |-> 0]}
    \cup {[available |-> TRUE, isDuplicate |-> FALSE, confidence |-> 90]}
    \cup [available : {TRUE}, isDuplicate : {TRUE}, confidence : {70, 90}]

(* one candidate goes through calculateSimilarityScore, the 0.3 filter of  *)
(* analyzeSimilarities and identifyDuplicates; the engine holds an         *)
(* llmAnalyzer and makes no call to it                                     *)
ScoreCandidate(scores, llm) ==
    /\ LET sim == scoreSignals(scores)
           kept == SelectSeq(<<sim>>, LAMBDA x : x.overallScore > MinPromisingScore)
       IN  probe' = [kind |-> "similarity", scores |-> scores, llm |-> llm,
                     overallScore |-> sim.overallScore, method |-> sim.method,
                     duplicate |-> identifyDuplicates(kept) # <<>>]
    /\ UNCHANGED <<now, db, pipelineVars, alertVars, lifecycleVars, feedVars>>

(* articles that differ in what calculatePriority and determineChannels    *)
(* look at                                                                 *)
PriorityArticles ==
    [title : { <<"acme", "buys", "beta">>, <<"breaking", "acme", "news">>,
               <<"major", "acquisition", "announced">> },
     category : {"breaking", "business", "technology", "entertainment"},
     money : BOOLEAN]

ChannelConfigs == [webhook : BOOLEAN, email : BOOLEAN, slack : BOOLEAN]

(* the priority and channels processAlert puts on the alert of an article *)
BuildAlert(enabled, article) ==
    /\ probe' = [kind |-> "alert", article |-> article, enabled |-> enabled,
                 priority |-> calculatePriority(article),
                 channels |-> determineChannelsWith(enabled, article)]
    /\ UNCHANGED <<now, db, pipelineVars, alertVars, lifecycleVars, feedVars>>

-----------------------------------------------------------------------------
(* DatabaseManager.connect, called by NewsDeduplicationApp.initialize *)

(* the manager after its constructor, with initialize() awaiting connect() *)
NewDatabaseManager ==
    [mongodb |-> FALSE, redis |-> FALSE, isConnected |-> FALSE,
     connectionRetries |-> 0,
     pc |-> "mongo",            \* position of the connect() call under way, or "idle"
     caller |-> "initialize",   \* who made that call: initialize() or the retry timer
     awaited |-> "running",     \* the call initialize() awaits: running, returned, threw
     timer |-> FALSE,           \* a retry is scheduled with setTimeout
     unhandled |-> FALSE,       \* a call made by the timer has thrown
     servicesInitialized |-> FALSE]

ConnectOutcomes == {"ok", "fail"}

(* the catch block of connect(): a retry is scheduled and the call returns *)
(* normally, or the error is thrown once the retries are used up           *)
connectFailed(d) ==
    IF d.connectionRetries < connectionMaxRetries
    THEN [d EXCEPT !.connectionRetries = @ + 1, !.timer = TRUE, !.pc = "idle",
                   !.awaited = IF d.caller = "initialize" THEN "returned" ELSE @]
    ELSE [d EXCEPT !.pc = "idle",
                   !.awaited = IF d.caller = "initialize" THEN "threw" ELSE @,
                   !.unhandled = IF d.caller = "timer" THEN TRUE ELSE @]

(* connect(), one step per awaited call: connectMongoDB, connectRedis      *)
(* (which swallows its error), initializeCollections                       *)
ConnectStep(outcome) ==
    /\ db.pc # "idle"
    /\ db' = CASE db.pc = "mongo" ->
                    IF outcome = "ok"
                    THEN [db EXCEPT !.mongodb = TRUE, !.pc = "redis"]
                    ELSE connectFailed(db)
               [] db.pc = "redis" ->
                    [db EXCEPT !.redis = (outcome = "ok"), !.pc = "collections"]
               [] OTHER ->
                    IF outcome = "ok"
                    THEN [db EXCEPT !.isConnected = TRUE, !.pc = "idle",
                                    !.awaited = IF db.caller = "initialize"
                                                THEN "returned" ELSE @]
                    ELSE connectFailed(db)
    /\ UNCHANGED <<now, probe, pipelineVars, alertVars, lifecycleVars, feedVars>>

(* the setTimeout callback of the catch block calls connect() again *)
RetryTimerFires ==
    /\ db.timer
    /\ db.pc = "idle"
    /\ db' = [db EXCEPT !.timer = FALSE, !.pc = "mongo", !.caller = "timer"]
    /\ UNCHANGED <<now, probe, pipelineVars, alertVars, lifecycleVars, feedVars>>

(* initialize() goes on after its await of connect() *)
InitializeServices ==
    /\ db.awaited = "returned"
    /\ ~db.servicesInitialized
    /\ db' = [db EXCEPT !.servicesInitialized = TRUE]
    /\ UNCHANGED <<now, probe, pipelineVars, alertVars, lifecycleVars, feedVars>>

-----------------------------------------------------------------------------
(* Scheduler and life cycle *)

(* the cron callback of startFeedMonitoring: starts processAllFeeds unless *)
(* isProcessing is set                                                     *)
CronTick ==
    /\ cronJob
    /\ ~newsIsProcessing
    /\ cycles < MaxCycles
    /\ newsIsProcessing' = TRUE
    /\ cycles' = cycles + 1
    /\ UNCHANGED <<now, probe, db, feedVars, pipelineVars, alertVars, cronJob, phase, restarted, lifecycleOps>>

(* processAllFeeds returns: every processFeed has settled; finally resets  *)
(* isProcessing                                                            *)
CycleFinish ==
    /\ cycles > 0
    /\ cycles = 1 => \A f \in Feeds : feedTask[f].pc = "idle"
    /\ cycles' = cycles - 1
    /\ newsIsProcessing' = FALSE
    /\ UNCHANGED <<now, probe, db, feedVars, pipelineVars, alertVars, cronJob, phase, restarted, lifecycleOps>>

(* NewsProcessor.stop() *)
NewsProcessorStop ==
    /\ lifecycleOps < MaxLifecycleOps
    /\ lifecycleOps' = lifecycleOps + 1
    /\ cronJob' = FALSE
    /\ newsIsProcessing' = FALSE
    /\ UNCHANGED <<now, probe, db, feedVars, pipelineVars, alertVars, cycles, phase, restarted>>

(* NewsProcessor.startFeedMonitoring() called again after stop() *)
StartFeedMonitoring ==
    /\ lifecycleOps < MaxLifecycleOps
    /\ ~cronJob
    /\ cycles < MaxCycles
    /\ lifecycleOps' = lifecycleOps + 1
    /\ cronJob' = TRUE
    /\ newsIsProcessing' = TRUE
    /\ cycles' = cycles + 1
    /\ UNCHANGED <<now, probe, db, feedVars, pipelineVars, alertVars, phase, restarted>>

(* DeduplicationEngine.stop() *)
DedupStop ==
    /\ lifecycleOps < MaxLifecycleOps
    /\ lifecycleOps' = lifecycleOps + 1
    /\ dedupIsProcessing' = FALSE
    /\ processingQueue' = <<>>
    /\ UNCHANGED <<now, probe, db, feedVars, articles, duplicates, feedTask, delivered, articleProcessed,
                   batch, uniqueEvents, clusters, nextClusterId, overlap, alertVars,
                   newsIsProcessing, cronJob, cycles, phase, restarted>>

(* gracefulShutdown up to the call of disconnect: the three stop() calls *)
GracefulShutdown ==
    /\ phase = "running"
    /\ lifecycleOps < MaxLifecycleOps
    /\ lifecycleOps' = lifecycleOps + 1
    /\ phase' = "stopping"
    /\ cronJob' = FALSE
    /\ newsIsProcessing' = FALSE
    /\ dedupIsProcessing' = FALSE
    /\ processingQueue' = <<>>
    /\ alertIsProcessing' = FALSE
    /\ alertQueue' = <<>>
    /\ UNCHANGED <<now, probe, db, feedVars, articles, duplicates, feedTask, delivered, articleProcessed,
                   batch, uniqueEvents, clusters, nextClusterId, overlap,
                   sending, alertHistory, alerts, stats, nextAlertId, admissions, apiCalls,
                   cycles, restarted>>

(* dbManager.disconnect() resolves and process.exit ends the process *)
Disconnect ==
    /\ phase = "stopping"
    /\ phase' = "exited"
    /\ UNCHANGED <<now, probe, db, feedVars, pipelineVars, alertVars, newsIsProcessing, cronJob, cycles,
                   restarted, lifecycleOps>>

(* the process is terminated at any point and started again: the memory of *)
(* the services is new, the store is kept, startFeedMonitoring runs the    *)
(* first cycle                                                             *)
Restart ==
    /\ lifecycleOps < MaxLifecycleOps
    /\ lifecycleOps' = lifecycleOps + 1
    /\ restarted' = TRUE
    /\ phase' = "running"
    /\ feedTask' = [f \in Feeds |-> Idle]
    /\ processingQueue' = <<>>
    /\ dedupIsProcessing' = FALSE
    /\ batch' = <<>>
    /\ overlap' = <<>>
    /\ clusters' = <<>>
    /\ alertQueue' = <<>>
    /\ alertIsProcessing' = FALSE
    /\ sending' = NoAlert
    /\ alertHistory' = {}
    /\ stats' = [totalAlerts |-> 0, successfulAlerts |-> 0, failedAlerts |-> 0,
                 filteredAlerts |-> 0]
    /\ cronJob' = TRUE
    /\ newsIsProcessing' = TRUE
    /\ cycles' = 1
    /\ UNCHANGED <<now, probe, db, feedVars, articles, duplicates, delivered, articleProcessed, uniqueEvents,
                   nextClusterId, alerts, nextAlertId, admissions, apiCalls>>

-----------------------------------------------------------------------------
Init ==
    /\ now = StartTime
    /\ articles = <<>>
    /\ duplicates = {}
    /\ feedTask = [f \in Feeds |-> Idle]
    /\ delivered = 0
    /\ articleProcessed = <<>>
    /\ processingQueue = <<>>
    /\ dedupIsProcessing = FALSE
    /\ batch = <<>>
    /\ uniqueEvents = <<>>
    /\ clusters = <<>>
    /\ nextClusterId = 1
    /\ alertQueue = <<>>
    /\ alertIsProcessing = FALSE
    /\ sending = NoAlert
    /\ alertHistory = {}
    /\ alerts = <<>>
    /\ stats = [totalAlerts |-> 0, successfulAlerts |-> 0, failedAlerts |-> 0,
                filteredAlerts |-> 0]
    /\ nextAlertId = 1
    /\ admissions = <<>>
    /\ apiCalls = 0
    /\ overlap = <<>>
    /\ newsIsProcessing = TRUE
    /\ cronJob = TRUE
    /\ cycles = 1
    /\ phase = "running"
    /\ restarted = FALSE
    /\ lifecycleOps = 0
    /\ feedState = [f \in Feeds |-> "called"]
    /\ fetchAttempts = [f \in Feeds |-> 0]
    /\ fetchFailure = [f \in Feeds |-> "none"]
    /\ errorCount = [f \in Feeds |-> 0]
    /\ cursor = [f \in Feeds |-> 0]
    /\ probe = NoProbe
    /\ db = NewDatabaseManager

Next ==
    \/ \E f \in Feeds : \E item \in FeedItems[f] : ProcessArticleStart(f, item)
    \/ \E f \in Feeds : ProcessArticleHashCheck(f)
    \/ \E f \in Feeds : ProcessArticleInsert(f)
    \/ DedupTick
    \/ ProcessQueueItem
    \/ DayPasses

Spec == Init /\ [][Next]_vars

(* The feeds and the dedup worker within one day *)
NextQueue ==
    \/ \E f \in Feeds : \E item \in FeedItems[f] : ProcessArticleStart(f, item)
    \/ \E f \in Feeds : ProcessArticleHashCheck(f)
    \/ \E f \in Feeds : ProcessArticleInsert(f)
    \/ DedupTick
    \/ ProcessQueueItem

SpecQueue == Init /\ [][NextQueue]_vars

(* the 1 s interval timer of startProcessing keeps firing and every       *)
(* iteration of a running processQueue call completes: weak fairness of    *)
(* DedupTick and of ProcessQueueItem, the latter written out with its      *)
(* enabling condition, a spliced batch that still holds an item            *)
SpecFair ==
    /\ SpecQueue
    /\ WF_vars(DedupTick)
    /\ \/ []<>(batch = <<>> /\ overlap = <<>>)
       \/ []<><<ProcessQueueItem>>_vars

(* The alert manager on its own, fed with 'uniqueArticleDetected' events *)
NextAlerts ==
    \/ \E article \in SampleArticles : processAlert(article)
    \/ AlertTick
    \/ \E outcome \in Outcomes : SendAlertFinish(outcome)
    \/ \E i \in 1..MaxAlertArticles, status \in Statuses : PatchStatus(i, status)
    \/ \E i \in 1..MaxAlertArticles, outcome \in Outcomes : Resend(i, outcome)
    \/ \E t \in AlertInstants : ClockAdvance(t)

SpecAlerts == Init /\ [][NextAlerts]_vars

(* The alert manager up to the shutdown of the process: its timers are    *)
(* not cleared by stop(), events and dispatches go on until the exit       *)
NextShutdown ==
    \/ phase # "exited" /\ \E article \in SampleArticles : processAlert(article)
    \/ phase # "exited" /\ AlertTick
    \/ phase # "exited" /\ \E outcome \in Outcomes : SendAlertFinish(outcome)
    \/ phase # "exited" /\ \E i \in 1..MaxAlertArticles, status \in Statuses : PatchStatus(i, status)
    \/ phase # "exited" /\ \E i \in 1..MaxAlertArticles, outcome \in Outcomes : Resend(i, outcome)
    \/ phase # "exited" /\ \E t \in AlertInstants : ClockAdvance(t)
    \/ GracefulShutdown
    \/ Disconnect

SpecShutdown == Init /\ [][NextShutdown]_vars

(* One feed-processing cycle: every feed is fetched and its items go       *)
(* through processArticle and the dedup worker                             *)
NextFeeds ==
    \/ \E f \in Feeds : \E outcome \in FetchOutcomes : ParseURL(f, outcome)
    \/ \E f \in Feeds : ProcessFeedItem(f)
    \/ \E f \in Feeds : ProcessArticleHashCheck(f)
    \/ \E f \in Feeds : ProcessArticleInsert(f)
    \/ \E f \in Feeds : ProcessFeedDone(f)
    \/ DedupTick
    \/ ProcessQueueItem

SpecFeeds == Init /\ [][NextFeeds]_vars

(* The pipeline with its scheduler and its life cycle *)
NextLifecycle ==
    \/ /\ phase # "exited"
       /\ delivered < MaxLifecycleItems
       /\ \E f \in Feeds : \E item \in FeedItems[f] : ProcessArticleStart(f, item)
    \/ phase # "exited" /\ \E f \in Feeds : ProcessArticleHashCheck(f)
    \/ phase # "exited" /\ \E f \in Feeds : ProcessArticleInsert(f)
    \/ phase # "exited" /\ DedupTick
    \/ phase # "exited" /\ ProcessQueueItem
    \/ phase # "exited" /\ CronTick
    \/ phase # "exited" /\ CycleFinish
    \/ phase # "exited" /\ NewsProcessorStop
    \/ phase # "exited" /\ StartFeedMonitoring
    \/ phase # "exited" /\ DedupStop
    \/ GracefulShutdown
    \/ Disconnect
    \/ Restart

SpecLifecycle == Init /\ [][NextLifecycle]_vars

(* The event loop runs every callback that is ready: a feed item being     *)
(* stored goes on, the cycle returns, and the cron and worker timers keep  *)
(* firing.  The life-cycle operations are the environment's.               *)
FeedStep ==
    \/ /\ delivered < MaxLifecycleItems
       /\ \E f \in Feeds : \E item \in FeedItems[f] : ProcessArticleStart(f, item)
    \/ \E f \in Feeds : ProcessArticleHashCheck(f)
    \/ \E f \in Feeds : ProcessArticleInsert(f)

SpecLifecycleFair ==
    /\ SpecLifecycle
    /\ WF_vars(phase # "exited" /\ FeedStep)
    /\ WF_vars(phase # "exited" /\ DedupTick)
    /\ WF_vars(phase # "exited" /\ ProcessQueueItem)
    /\ WF_vars(phase # "exited" /\ CronTick)
    /\ WF_vars(phase # "exited" /\ CycleFinish)

(* The clustering engine on its own, under any sequence of calls *)
NextClusters ==
    \/ \E a \in ClusterArticles : \E dups \in DuplicatesArgs(a) : UpdateClustersCall(a, dups)
    \/ \E id1, id2 \in 1..MaxClusters : MergeClustersCall(id1, id2)
    \/ CleanupOldClustersCall
    \/ ClusterClock

SpecClusters == Init /\ [][NextClusters]_vars

(* The alert queue and its 5 s worker, with no call of the alerts API and   *)
(* no stop(): events come in, the worker tick dispatches                   *)
NextAlertQueue ==
    \/ \E article \in SampleArticles : processAlert(article)
    \/ AlertTick
    \/ \E outcome \in Outcomes : SendAlertFinish(outcome)
    \/ \E t \in AlertInstants : ClockAdvance(t)

SpecAlertQueue == Init /\ [][NextAlertQueue]_vars

(* the interval timer keeps firing and every channel send settles *)
SpecAlertQueueFair ==
    /\ SpecAlertQueue
    /\ WF_vars(AlertTick)
    /\ WF_vars(\E outcome \in Outcomes : SendAlertFinish(outcome))

(* The start of the process: the database connection and its retries *)
NextConnect ==
    \/ \E outcome \in ConnectOutcomes : ConnectStep(outcome)
    \/ RetryTimerFires
    \/ InitializeServices

SpecConnect == Init /\ [][NextConnect]_vars

(* the scoring and alert-building functions called on bounded inputs *)
NextFunctions ==
    \/ \E scores \in SignalVectors \cup HashEqualVectors, llm \in LlmAnswers :
          ScoreCandidate(scores, llm)
    \/ \E enabled \in ChannelConfigs : \E article \in PriorityArticles :
          BuildAlert(enabled, article)

SpecFunctions == Init /\ [][NextFunctions]_vars

-----------------------------------------------------------------------------
(* Properties *)

(* two stored articles are matched to one another as the same story: their *)
(* similarity reaches the threshold of its detection method                *)
SameStory(i, j) ==
    LET sim == calculateSimilarityScore(articles[i], articles[j])
    IN  sim.overallScore >= MethodThreshold(sim.method)

(* the article processQueue is about to hand to performDeduplication *)
Current == Head(batch).article

(* the earliest published of a set of stored articles, the earliest        *)
(* inserted of them when several share that time                           *)
EarliestOf(ids) ==
    CHOOSE i \in ids :
        \A j \in ids :
            \/ articles[i].publishedAt < articles[j].publishedAt
            \/ articles[i].publishedAt = articles[j].publishedAt /\ i <= j

(* C1: for every group of articles matched to one another as the same     *)
(* story at most one uniqueArticleDetected event is ever produced: no two  *)
(* events are for articles of the same story.                              *)
C1_OneEventPerStory ==
    \A k1, k2 \in 1..Len(uniqueEvents) :
        k1 < k2 => ~SameStory(uniqueEvents[k1], uniqueEvents[k2])

(* C2: every article with isDuplicate = true has a DuplicateLink whose     *)
(* duplicateArticleId is the article's id and whose originalArticleId is   *)
(* its recorded original, and the original is not published later.         *)
C2_DuplicateHasLink ==
    \A a \in ArticleIds :
        articles[a].isDuplicate =>
            /\ DuplicateKeyExists(duplicates, articles[a].originalArticleId, a)
            /\ articles[a].originalArticleId \in ArticleIds
            /\ articles[articles[a].originalArticleId].publishedAt
                  <= articles[a].publishedAt

(* C3: no DuplicateLink has originalArticleId equal to duplicateArticleId. *)
C3_NoSelfLink ==
    \A l \in duplicates : l.originalArticleId # l.duplicateArticleId

(* C4: in every trailing one-hour window at most maxAlertsPerHour alerts   *)
(* are admitted (created and queued) by processAlert: an article arriving  *)
(* when the limit is reached is filtered, never admitted.                  *)
AdmittedInWindow(t) ==
    Cardinality({k \in 1..Len(admissions) :
                    admissions[k].time > t - 60 /\ admissions[k].time <= t})

C4_RateLimit ==
    \A k \in 1..Len(admissions) :
        AdmittedInWindow(admissions[k].time) <= maxAlertsPerHour

(* C5: a stored alert has status 'sent' if and only if at least one entry  *)
(* of its results has success = true.                                      *)
C5_SentIffSuccess ==
    \A i \in 1..Len(alerts) :
        alerts[i].status = "sent"
            <=> \E k \in 1..Len(alerts[i].results) : alerts[i].results[k].success

(* C6: an article the engine finishes as unique because no candidate       *)
(* reaches its threshold causes uniqueArticleDetected exactly once.        *)
C6_UniqueEmits ==
    [][(batch # <<>> /\ batch' = Tail(batch) /\ MatchedOf(Current) = <<>>)
          => uniqueEvents' = Append(uniqueEvents, Current)]_vars

(* C7: the elected original is the earliest published among the new        *)
(* article and its matched duplicates, the earliest inserted on a tie.     *)
C7_ElectsEarliest ==
    (batch # <<>> /\ MatchedOf(Current) # <<>>) =>
        LET dups == MatchedOf(Current)
        IN  electOriginal(Current, dups)
               = EarliestOf({Current} \cup {dups[k].candidate : k \in 1..Len(dups)})

(* C8: an article with matched duplicates is marked isDuplicate = false    *)
(* and uniqueArticleDetected is emitted for it iff it is the elected       *)
(* original; otherwise it is marked isDuplicate = true with the elected    *)
(* original recorded, and no event is ever emitted for it.                 *)
C8_MarkedByElection ==
    [][(batch # <<>> /\ batch' = Tail(batch) /\ MatchedOf(Current) # <<>>) =>
          LET orig == electOriginal(Current, MatchedOf(Current))
          IN  /\ articles'[Current].duplicateChecked
              /\ IF Current = orig
                 THEN /\ ~articles'[Current].isDuplicate
                      /\ uniqueEvents' = Append(uniqueEvents, Current)
                 ELSE /\ articles'[Current].isDuplicate
                      /\ articles'[Current].originalArticleId = orig
                      /\ uniqueEvents' = uniqueEvents
              /\ \A a \in ArticleIds :
                    articles'[a].isDuplicate => a \notin Range(uniqueEvents')]_vars

(* C9: of two ingested items with the same content hash the later-arriving *)
(* one ends up flagged isDuplicate = true: once ingestion and the dedup    *)
(* queue are idle, the later stored of two articles of one hash is         *)
(* flagged, and so is the item (of another URL than the original) behind   *)
(* every link the normalizer recorded.                                     *)
Quiescent ==
    /\ \A f \in Feeds : feedTask[f].pc = "idle"
    /\ processingQueue = <<>>
    /\ batch = <<>>
    /\ overlap = <<>>

C9_LaterHashFlagged ==
    Quiescent =>
        /\ \A i, j \in ArticleIds :
              (i < j /\ articles[i].contentHash = articles[j].contentHash)
                  => articles[j].isDuplicate
        /\ \A l \in duplicates :
              (l.duplicateArticleId = 0
                  /\ l.duplicateUrl # articles[l.originalArticleId].url) =>
                  \E a \in findArticleByUrl(l.duplicateUrl) : articles[a].isDuplicate

(* C10: a processArticle call for an item whose URL is already stored      *)
(* leaves articles and duplicates unchanged and emits no articleProcessed. *)
C10_StoredUrlNoOp ==
    [][\A f \in Feeds :
          (/\ feedTask[f].pc # "idle"
           /\ feedTask'[f] # feedTask[f]
           /\ findArticleByUrl(feedTask[f].item.url) # {})
              => UNCHANGED <<articles, duplicates, articleProcessed>>]_vars

(* C11: an article is rejected by the cooldown gate if and only if an      *)
(* alert with the same coarse key was created less than cooldownMinutes    *)
(* earlier.                                                                *)
C11_CooldownIffRecent ==
    \A article \in SampleArticles :
        isInCooldown(article)
            <=> \E k \in 1..Len(admissions) :
                    /\ admissions[k].articleKey
                          = generateArticleKey(article.title, article.source)
                    /\ now - admissions[k].time < cooldownMinutes

(* C20: each cluster lists at least one article id and no article id       *)
(* appears in two clusters.                                                *)
C20_ClustersDisjoint ==
    /\ \A k \in 1..Len(clusters) : Len(clusters[k].articles) >= 1
    /\ \A k1, k2 \in 1..Len(clusters) :
          k1 < k2 => Range(clusters[k1].articles) \cap Range(clusters[k2].articles) = {}

(* the articles waiting in the dedup queue or in a batch being processed   *)
Waiting ==
    {processingQueue[k].article : k \in 1..Len(processingQueue)}
        \cup {batch[k].article : k \in 1..Len(batch)}
        \cup {overlap[k].article : k \in 1..Len(overlap)}

(* C14: an article whose deduplication throws is re-enqueued with an       *)
(* incremented attempt counter; the counter never exceeds 3, and once it   *)
(* has reached 3 a further failure removes the article from the queue with *)
(* duplicateChecked still false.                                           *)
C14_RetryUpToThree ==
    [][(batch # <<>> /\ batch' = Tail(batch) /\ performDeduplication(Current).threw) =>
          /\ Head(batch).retryCount <= MaxRetries
          /\ IF Head(batch).retryCount < MaxRetries
             THEN processingQueue' =
                     Append(processingQueue,
                            [article |-> Current,
                             retryCount |-> Head(batch).retryCount + 1])
             ELSE /\ processingQueue' = processingQueue
                  /\ Current \notin Waiting'
                  /\ ~articles'[Current].duplicateChecked]_vars

(* an article has been dropped after its last retry: stored, handed to the *)
(* engine, not checked and no longer waiting                               *)
C14_Dropped ==
    /\ \A f \in Feeds : feedTask[f].pc = "idle"
    /\ \E a \in ArticleIds :
          /\ ~articles[a].duplicateChecked
          /\ a \in Range(articleProcessed)
          /\ a \notin Waiting

(* C15: if deduplication of an article fails part-way, none of that        *)
(* attempt's links, flag updates or cluster updates remain.                *)
C15_AtomicPerArticle ==
    [][(batch # <<>> /\ batch' = Tail(batch) /\ performDeduplication(Current).threw) =>
          UNCHANGED <<articles, duplicates, clusters>>]_vars

(* C19: the store insert of an article completes before the article is     *)
(* enqueued: every article waiting for deduplication, and every article    *)
(* announced by 'articleProcessed', is in the store.                       *)
C19_StoredBeforeEnqueued ==
    /\ Waiting \subseteq ArticleIds
    /\ Range(articleProcessed) \subseteq ArticleIds

(* the engine is about to query candidates for one article while another   *)
(* one is enqueued                                                         *)
C19_QueryWhileEnqueued ==
    /\ batch # <<>>
    /\ processingQueue # <<>>
    /\ Current \notin {processingQueue[k].article : k \in 1..Len(processingQueue)}

(* C12: at most one feed-processing cycle (processAllFeeds) is in progress *)
(* at any time, whatever the cron ticks, stop() and startFeedMonitoring()  *)
(* calls.                                                                  *)
C12_SingleCycle == cycles <= 1

(* C13: at most one dedup batch is being processed at any time, for any    *)
(* interleaving of worker ticks, enqueues and stop().                      *)
C13_SingleBatch == batch = <<>> \/ overlap = <<>>

(* the articles of the batches being processed *)
InBatch ==
    {batch[k].article : k \in 1..Len(batch)} \cup {overlap[k].article : k \in 1..Len(overlap)}

(* article a is in the store with duplicateChecked = false *)
StoredUnchecked(a) == IF a \in ArticleIds THEN ~articles[a].duplicateChecked ELSE FALSE

StoredPending(coll) == {coll[j].id : j \in {j \in 1..Len(coll) : coll[j].status = "pending"}}

(* C17: an alert that has been admitted but not yet dispatched when the    *)
(* alert manager is stopped at shutdown is in the store with status        *)
(* 'pending' afterwards.                                                   *)
C17_PendingKept ==
    [][(phase = "running" /\ phase' = "stopping") =>
          \A k \in 1..Len(alertQueue) : alertQueue[k].id \in StoredPending(alerts')]_vars

(* C18: the store connection is closed only after every in-flight feed     *)
(* item, feed cycle, dedup batch and alert dispatch has finished.          *)
C18_DrainedBeforeClose ==
    [][(phase = "stopping" /\ phase' = "exited") =>
          /\ \A f \in Feeds : feedTask[f].pc = "idle"
          /\ cycles = 0
          /\ batch = <<>> /\ overlap = <<>>
          /\ sending = NoAlert]_vars

(* C21: when a feed's errorCount is incremented, its fetch has been        *)
(* attempted 3 times in the cycle if it failed with a transport or 5xx     *)
(* error, and exactly once if it failed with a 4xx error.                  *)
C21_FetchRetried ==
    [][\A f \in Feeds :
          errorCount'[f] > errorCount[f] =>
              fetchAttempts'[f] = IF fetchFailure'[f] \in {"transport", "http5xx"}
                                  THEN FetchRetryAttempts ELSE 1]_vars

(* C22: a failure while fetching a feed or processing an item does not     *)
(* keep the other feeds, the other items of the feed or the other articles *)
(* of a dedup batch from being processed: a feed whose fetch failed has    *)
(* its errorCount incremented, a feed that was fetched settles only after  *)
(* every one of its items has been handed to processArticle, and every     *)
(* step of the dedup worker, failing or not, takes just the first article  *)
(* off its batch.                                                          *)
C22_FailuresContained ==
    /\ [](\A f \in Feeds :
            feedState[f] = "settled" =>
                IF fetchFailure[f] = "none"
                THEN cursor[f] = Len(FeedList[f]) /\ errorCount[f] = 0
                ELSE errorCount[f] = 1)
    /\ [][(batch # <<>> /\ batch' # batch) => batch' = Tail(batch)]_vars

(* the cycle has completed although the fetch of feed 1 failed: feed 2 has *)
(* handed on all its items and the dedup worker has finished them          *)
C22_CycleCompleted ==
    /\ \A f \in Feeds : feedState[f] = "settled"
    /\ fetchFailure[1] # "none"
    /\ fetchFailure[2] = "none"
    /\ cursor[2] = Len(FeedList[2])
    /\ Quiescent
    /\ Len(articles) = Len(FeedList[2])
    /\ \A a \in ArticleIds : articles[a].duplicateChecked

(* a queue capacity below the number of items the producers deliver in a   *)
(* behaviour                                                               *)
QueueBound == MaxItems - 1

(* C23: the dedup processing queue and the alert queue never hold more     *)
(* than a fixed bound of items: a producer never appends to a full queue.  *)
C23_QueuesBounded ==
    /\ Len(processingQueue) <= QueueBound
    /\ Len(alertQueue) <= QueueBound

(* C24: once the dedup engine has set an article's duplicateChecked flag,  *)
(* no later step changes the article's duplicateChecked, isDuplicate or    *)
(* originalArticleId.                                                      *)
C24_FlagsWrittenOnce ==
    [][\A a \in ArticleIds :
          articles[a].duplicateChecked =>
              /\ a \in 1..Len(articles')
              /\ articles'[a].duplicateChecked
              /\ articles'[a].isDuplicate = articles[a].isDuplicate
              /\ articles'[a].originalArticleId = articles[a].originalArticleId]_vars

(* an article checked as unique has since been matched by a later article  *)
(* that was elected original over it: the link names it as the duplicate   *)
C24_MatchedAfterChecked ==
    \E a, b \in ArticleIds :
        /\ a < b
        /\ articles[a].duplicateChecked /\ ~articles[a].isDuplicate
        /\ articles[b].duplicateChecked
        /\ \E l \in duplicates : l.originalArticleId = b /\ l.duplicateArticleId = a

(* C25: neither the normalizer nor the dedup engine attempts to write a    *)
(* link whose (originalArticleId, duplicateArticleId) pair is already in   *)
(* the store: no content-hash hit of processArticle and no article of a    *)
(* dedup batch runs into the unique index.                                 *)
C25_NoLinkRejected ==
    [][/\ (batch # <<>> /\ batch' = Tail(batch)) => ~performDeduplication(Current).threw
       /\ \A f \in Feeds :
             (feedTask[f].pc = "urlChecked" /\ feedTask'[f].pc = "idle") =>
                 \A orig \in findArticleByHash(generateContentHash(feedTask[f].item.text)) :
                     orig = FirstOf(findArticleByHash(generateContentHash(feedTask[f].item.text)))
                         => ~DuplicateKeyExists(duplicates, orig, 0)]_vars

(* the threshold the thresholds table gives for a detection method *)
TableThreshold(method) ==
    CASE method = "content_hash" -> ThresholdContentHash
      [] method = "title_similarity" -> ThresholdTitleSimilarity
      [] method = "semantic_similarity" -> SimilarityThreshold
      [] method = "entity_similarity" -> ThresholdEntitySimilarity
      [] OTHER -> SimilarityThreshold

(* C26: a scored candidate is declared a duplicate if and only if its      *)
(* overall score is at least the threshold of its primary method: 1.0 for  *)
(* content_hash, 0.9 for title_similarity, 0.85 for semantic_similarity,   *)
(* 0.8 for entity_similarity, the configured threshold for                 *)
(* content_similarity.                                                     *)
C26_ThresholdOfMethod ==
    probe.kind = "similarity" =>
        (probe.duplicate <=> probe.overallScore >= TableThreshold(probe.method))

(* one of the triggers of a high priority is present on the article *)
HighTrigger(article) ==
    \/ Range(article.title) \cap breakingKeywords # {}
    \/ Range(article.title) \cap highImpactKeywords # {}
    \/ article.money
    \/ article.category = "breaking"

(* C27: the priority put on an alert is 'high' whenever the title has a    *)
(* breaking-news or business-impact keyword, the content mentions a        *)
(* monetary magnitude or the category is 'breaking', whatever the          *)
(* category; otherwise it is 'low' for entertainment and 'medium' for      *)
(* every other category.                                                   *)
C27_PriorityByTrigger ==
    probe.kind = "alert" =>
        probe.priority =
            IF HighTrigger(probe.article) THEN "high"
            ELSE IF probe.article.category = "entertainment" THEN "low"
            ELSE "medium"

(* C28: the channels put on an alert are exactly webhook if it is enabled, *)
(* email if it is enabled and the priority stored on the alert is 'high',  *)
(* slack if it is enabled and the category is business or technology.      *)
C28_ChannelsOfAlert ==
    probe.kind = "alert" =>
        /\ Len(probe.channels) = Cardinality(Range(probe.channels))
        /\ Range(probe.channels) =
              {c \in {"webhook", "email", "slack"} :
                  /\ probe.enabled[c]
                  /\ c = "email" => probe.priority = "high"
                  /\ c = "slack" => probe.article.category \in {"business", "technology"}}

(* with all channels enabled, a business article whose title has a         *)
(* business-impact keyword gets webhook and slack but no email, as its     *)
(* stored priority is not 'high'                                           *)
C28_EmailFollowsStoredPriority ==
    /\ probe.kind = "alert"
    /\ probe.enabled = [webhook |-> TRUE, email |-> TRUE, slack |-> TRUE]
    /\ probe.article.category = "business"
    /\ Range(probe.article.title) \cap highImpactKeywords # {}
    /\ probe.priority # "high"
    /\ probe.channels = <<"webhook", "slack">>

(* the step is a resend through the API: an API call that dispatched *)
ResendStep == apiCalls' = apiCalls + 1 /\ stats' # stats

(* C29: a resend through the API leaves one stored alert, not yet sent     *)
(* before, with its resend count increased by exactly one and with the     *)
(* status of the new dispatch, and stores no other document for it.        *)
C29_ResendPersisted ==
    [][ResendStep =>
          /\ Len(alerts') = Len(alerts)
          /\ \E i \in 1..Len(alerts) :
                /\ alerts[i].status # "sent"
                /\ alerts'[i].resendCount = alerts[i].resendCount + 1
                /\ alerts'[i].status =
                      IF stats'.successfulAlerts > stats.successfulAlerts
                      THEN "sent" ELSE "failed"]_vars

(* the clusters of a cluster list that list one of the given articles *)
ClustersOf(cls, ids) ==
    {k \in 1..Len(cls) : \E a \in ids : SeqIncludes(cls[k].articles, a)}

(* C30: once an article with matched duplicates, each of them already in  *)
(* a cluster, has been processed, one cluster lists both the article and   *)
(* the original elected for it, and the article and its matched duplicates *)
(* lie in a single cluster: clusters the duplicates were spread over have  *)
(* been merged.                                                            *)
C30_ClusteredWithOriginal ==
    [][(/\ batch # <<>> /\ batch' = Tail(batch)
        /\ MatchedOf(Current) # <<>>
        /\ \A k \in 1..Len(MatchedOf(Current)) :
              ClustersOf(clusters, {MatchedOf(Current)[k].candidate}) # {}
        /\ ~performDeduplication(Current).threw) =>
          LET dups == MatchedOf(Current)
              orig == electOriginal(Current, dups)
              matched == {dups[k].candidate : k \in 1..Len(dups)}
          IN  /\ \E k \in 1..Len(clusters') :
                    /\ SeqIncludes(clusters'[k].articles, Current)
                    /\ SeqIncludes(clusters'[k].articles, orig)
              /\ Cardinality(ClustersOf(clusters', matched \cup {Current})) = 1]_vars

(* C31: an article the engine finishes as unique with no matched           *)
(* duplicate, whether or not the time window held candidates, is           *)
(* afterwards the only member of a cluster created by that step and is     *)
(* listed in no other cluster.                                             *)
C31_UniqueGetsCluster ==
    [][(batch # <<>> /\ batch' = Tail(batch) /\ MatchedOf(Current) = <<>>) =>
          /\ Len(clusters') = Len(clusters) + 1
          /\ clusters'[Len(clusters')].articles = <<Current>>
          /\ ClustersOf(clusters', {Current}) = {Len(clusters')}]_vars

(* C32, as stated: the primary method is content_hash when the hashes are  *)
(* equal, else title_similarity when the title signal is at least 0.9,     *)
(* else semantic_similarity when the semantic signal is at least 0.85,     *)
(* else entity_similarity when the entity signal is at least 0.8, else     *)
(* content_similarity; the values 0.9, 0.85 and 0.8 themselves select.     *)
C32_BoundarySelects ==
    probe.kind = "similarity" =>
        probe.method =
            IF probe.scores.contentHash = 100 THEN "content_hash"
            ELSE IF probe.scores.titleSimilarity >= 90 THEN "title_similarity"
            ELSE IF probe.scores.semanticSimilarity >= 85 THEN "semantic_similarity"
            ELSE IF probe.scores.entitySimilarity >= 80 THEN "entity_similarity"
            ELSE "content_similarity"

(* C32, amended: a signal selects its method only above its bound.  The    *)
(* method is content_hash exactly when the hashes are equal; otherwise it  *)
(* is title_similarity exactly when the title signal exceeds 0.9,          *)
(* semantic_similarity exactly when in addition to a title signal of at    *)
(* most 0.9 the semantic signal exceeds 0.85, entity_similarity exactly    *)
(* when neither does and the entity signal exceeds 0.8, and                *)
(* content_similarity exactly when no signal exceeds its bound.            *)
C32_MethodAboveBound ==
    probe.kind = "similarity" =>
        LET sc == probe.scores
            hash == sc.contentHash = 100
            title == sc.titleSimilarity > 90
            semantic == sc.semanticSimilarity > 85
            entity == sc.entitySimilarity > 80
        IN  /\ probe.method = "content_hash" <=> hash
            /\ probe.method = "title_similarity" <=> ~hash /\ title
            /\ probe.method = "semantic_similarity" <=> ~hash /\ ~title /\ semantic
            /\ probe.method = "entity_similarity" <=>
                  ~hash /\ ~title /\ ~semantic /\ entity
            /\ probe.method = "content_similarity" <=>
                  ~hash /\ ~title /\ ~semantic /\ ~entity

(* a pair whose three signals sit exactly on their bounds has been scored  *)
(* and got content_similarity                                              *)
C32_OnTheBounds ==
    /\ probe.kind = "similarity"
    /\ probe.scores.titleSimilarity = 90
    /\ probe.scores.semanticSimilarity = 85
    /\ probe.scores.entitySimilarity = 80
    /\ probe.method = "content_similarity"

(* C33: the overall score of a pair, and with it the similarityScore       *)
(* stored in every duplicate link, lies between 0 and 1.                   *)
C33_ScoreWithinUnit ==
    \A l \in duplicates : l.similarityScore >= 0 /\ l.similarityScore <= 1000

(* the overall score lies in the band where the match is borderline: from  *)
(* 0.7 to 0.05 above the configured threshold                              *)
Borderline(score) == score >= 700 /\ score <= SimilarityThreshold + 50

(* C34: with an LLM provider available, a candidate whose overall score is *)
(* borderline is declared a duplicate only if the validation answers       *)
(* isDuplicate with a confidence of at least 0.85.                         *)
C34_LlmGate ==
    (/\ probe.kind = "similarity"
     /\ probe.llm.available
     /\ Borderline(probe.overallScore)
     /\ probe.duplicate) =>
        probe.llm.isDuplicate /\ probe.llm.confidence * 10 >= ThresholdLlmValidation

(* the alert with this id waits in the alert queue *)
Queued(id) == \E k \in 1..Len(alertQueue) : alertQueue[k].id = id

(* the alert with this id is in the store with the status of a dispatch *)
Dispatched(id) ==
    \E i \in 1..Len(alerts) : alerts[i].id = id /\ alerts[i].status \in {"sent", "failed"}

C36_QueueDrains ==
    /\ \A a \in 1..MaxItems : (a \in Waiting) ~> (a \notin Waiting)
    /\ [][\A a \in Waiting :
            a \notin Waiting' =>
                IF batch = <<>> THEN FALSE
                ELSE /\ Current = a
                     /\ \/ articles'[a].duplicateChecked
                        \/ Head(batch).retryCount = MaxRetries]_vars
    /\ [][(batch # <<>> /\ batch' = Tail(batch) /\ Current \in Waiting') =>
            /\ processingQueue' # <<>>
            /\ processingQueue'[Len(processingQueue')].article = Current
            /\ Current \notin {batch'[k].article : k \in 1..Len(batch')}]_vars

(* an article that failed has been re-enqueued behind the queue and waits  *)
(* for a later batch, its attempt counter raised                           *)
C36_WaitsForLaterBatch ==
    /\ batch = <<>>
    /\ \E k \in 1..Len(processingQueue) : processingQueue[k].retryCount > 0

(* the step is processAlert handling one 'uniqueArticleDetected' event *)
EventStep ==
    stats'.totalAlerts + stats'.filteredAlerts # stats.totalAlerts + stats.filteredAlerts

(* C37: an article rejected at the admission gate (rate limit, cooldown or *)
(* quality) leaves the alert queue, the alert history and totalAlerts as   *)
(* they were and adds one to filteredAlerts; an event changes the queue    *)
(* and totalAlerts only for an article that passes the gate.               *)
C37_RejectionFrame ==
    [][EventStep =>
          \/ /\ \E article \in SampleArticles : shouldSendAlert(article)
             /\ Len(alertQueue') = Len(alertQueue) + 1
             /\ stats' = [stats EXCEPT !.totalAlerts = @ + 1]
          \/ /\ \E article \in SampleArticles : ~shouldSendAlert(article)
             /\ stats' = [stats EXCEPT !.filteredAlerts = @ + 1]
             /\ UNCHANGED <<alertQueue, alertHistory>>]_vars

(* an article has been rejected after an alert was admitted, dispatched    *)
(* and entered in the history                                              *)
C37_RejectedBehindAdmitted ==
    /\ stats.filteredAlerts > 0
    /\ stats.totalAlerts > 0
    /\ alertHistory # {}

(* C38: once the shutdown has called DeduplicationEngine.stop(), the       *)
(* processing queue stays empty and the engine handles no further article: *)
(* no batch is spliced and no item of a batch in flight is processed.      *)
C38_StoppedStaysStopped ==
    [][phase = "stopping" =>
          /\ processingQueue' = <<>>
          /\ batch' = batch
          /\ overlap' = overlap]_vars

(* C39: whenever the connect() call awaited by initialize() has completed  *)
(* without throwing, isConnected is true; the connection is retried at     *)
(* most 5 times; and the failure that finds the retries used up is thrown  *)
(* by connect() to its caller, not lost in a timer callback.               *)
C39_ConnectedOrThrown ==
    /\ db.awaited = "returned" => db.isConnected
    /\ db.connectionRetries <= connectionMaxRetries
    /\ ~db.unhandled

=============================================================================
